---- MODULE Spec2Model ----
(***************************************************************************)
(* Model of airflow/www/utils.py (pagination widget, sensitive-field      *)
(* matching, UTC-aware filters, task-tag model converter) and of the      *)
(* Alembic migration 19d8a998c007 (task_tag table and its sequence).      *)
(* The components are independent adapters; each has its own              *)
(* specification over the shared variables.                               *)
(***************************************************************************)
EXTENDS Integers, Sequences, FiniteSets, TLC

VARIABLES
    \* generate_pages
    current_page, num_of_pages, search, status, window, output,
    \* should_hide_value_for_key
    key_name, hide_sensitive_variable_fields, sensitive_variable_fields,
    hide_result,
    \* migration 19d8a998c007
    schema, schema_before, mig_pc, ddl_log, runs,
    \* UtcAwareFilterMixin.apply
    filter_class, query, value, raw_value, flt_pc, delegated, result,
    \* TaskTagModelConverter._convert_col
    column, convert_args, convert_calls, convert_result

pageVars == <<current_page, num_of_pages, search, status, window, output>>
hideVars == <<key_name, hide_sensitive_variable_fields,
              sensitive_variable_fields, hide_result>>
migVars == <<schema, schema_before, mig_pc, ddl_log, runs>>
filterVars == <<filter_class, query, value, raw_value, flt_pc, delegated,
                result>>
convertVars == <<column, convert_args, convert_calls, convert_result>>
vars == <<pageVars, hideVars, migVars, filterVars, convertVars>>

\* Python's None
None == "None"

Min(a, b) == IF a < b THEN a ELSE b
Max(a, b) == IF a > b THEN a ELSE b

(***************************************************************************)
(* Bounds of the model                                                     *)
(***************************************************************************)
MaxPages == 21
MaxWindow == 8

(***************************************************************************)
(* generate_pages                                                          *)
(***************************************************************************)

\* list(range(a, b))
Range(a, b) == [i \in 1..Max(b - a, 0) |-> a + i - 1]

\* get_params(**kwargs): the (key, value) pairs whose value is not None,
\* in keyword order; urlencode keeps that order
get_params(page, srch, stat) ==
    <<<<"page", page>>>>
      \o (IF srch = None THEN <<>> ELSE <<<<"search", srch>>>>)
      \o (IF stat = None THEN <<>> ELSE <<<<"status", stat>>>>)

void_link == [href |-> "javascript:void(0)"]
QueryLink(params) == [href |-> "?", params |-> params]

\* 'disabled' if current_page <= 0 else ''
FirstDisabled(cp) == IF cp <= 0 THEN "disabled" ELSE ""

\* variant: the last page itself still offers 'next'
LastDisabled_Strict(cp, n) == IF cp > n - 1 THEN "disabled" ELSE ""

\* 'disabled' if current_page >= num_of_pages - 1 else ''
LastDisabled(cp, n) == IF cp >= n - 1 THEN "disabled" ELSE ""

first_node(cp, srch, stat) ==
    [node |-> "first",
     href_link |-> QueryLink(get_params(0, srch, stat)),
     disabled |-> FirstDisabled(cp)]

previous_node(cp, srch, stat) ==
    [node |-> "previous",
     href_link |-> IF cp > 0 THEN QueryLink(get_params(cp - 1, srch, stat))
                             ELSE void_link,
     disabled |-> FirstDisabled(cp)]

\* mid = int(window / 2)
Mid(w) == w \div 2

\* variant: the first branch ignores the total number of pages
PageWindow_NoMin(cp, n, w) ==
    LET mid == Mid(w)
        last_page == n - 1
    IN  IF cp <= mid \/ n < w
          THEN Range(0, w)
          ELSE IF mid < cp /\ cp < last_page - mid
                 THEN Range(cp - mid, cp + mid + 1)
                 ELSE Range(n - w, last_page + 1)

\* variant: the centred window stops one page early
PageWindow_CentreShort(cp, n, w) ==
    LET mid == Mid(w)
        last_page == n - 1
    IN  IF cp <= mid \/ n < w
          THEN Range(0, Min(n, w))
          ELSE IF mid < cp /\ cp < last_page - mid
                 THEN Range(cp - mid, cp + mid)
                 ELSE Range(n - w, last_page + 1)

\* variant: the end window is taken up to last_page exclusive
PageWindow_EndShifted(cp, n, w) ==
    LET mid == Mid(w)
        last_page == n - 1
    IN  IF cp <= mid \/ n < w
          THEN Range(0, Min(n, w))
          ELSE IF mid < cp /\ cp < last_page - mid
                 THEN Range(cp - mid, cp + mid + 1)
                 ELSE Range(n - w - 1, last_page)

\* the three-way choice of the page window
PageWindow(cp, n, w) ==
    LET mid == Mid(w)
        last_page == n - 1
    IN  IF cp <= mid \/ n < w
          THEN Range(0, Min(n, w))
          ELSE IF mid < cp /\ cp < last_page - mid
                 THEN Range(cp - mid, cp + mid + 1)
                 ELSE Range(n - w, last_page + 1)

is_current(current, page) == page = current

\* variant: the current page is matched against the 1-based page number
page_node_OneBased(cp, page, srch, stat) ==
    [node |-> "page",
     is_active |-> IF is_current(cp, page + 1) THEN "active" ELSE "",
     href_link |-> IF is_current(cp, page + 1)
                     THEN void_link
                     ELSE QueryLink(get_params(page, srch, stat)),
     page_num |-> page + 1]

page_node(cp, page, srch, stat) ==
    [node |-> "page",
     is_active |-> IF is_current(cp, page) THEN "active" ELSE "",
     href_link |-> IF is_current(cp, page)
                     THEN void_link
                     ELSE QueryLink(get_params(page, srch, stat)),
     page_num |-> page + 1]

next_node(cp, n, srch, stat) ==
    [node |-> "next",
     href_link |-> IF cp >= n - 1
                     THEN void_link
                     ELSE QueryLink(get_params(cp + 1, srch, stat)),
     disabled |-> LastDisabled(cp, n)]

last_node(cp, n, srch, stat) ==
    [node |-> "last",
     href_link |-> QueryLink(get_params(n - 1, srch, stat)),
     disabled |-> LastDisabled(cp, n)]

\* the whole widget: <ul>, first, previous, the page entries, next, last, </ul>
generate_pages(cp, n, srch, stat, w) ==
    LET pages == PageWindow(cp, n, w)
    IN  <<[node |-> "ul"],
          first_node(cp, srch, stat),
          previous_node(cp, srch, stat)>>
        \o [i \in 1..Len(pages) |-> page_node(cp, pages[i], srch, stat)]
        \o <<next_node(cp, n, srch, stat),
             last_node(cp, n, srch, stat),
             [node |-> "/ul"]>>

PageInit ==
    /\ current_page \in -1..MaxPages
    /\ num_of_pages \in 0..MaxPages
    /\ search \in {None, "dag"}
    /\ status \in {None, "active"}
    /\ window \in 1..MaxWindow
    /\ output = <<>>

PageIdle ==
    /\ current_page = 0
    /\ num_of_pages = 0
    /\ search = None
    /\ status = None
    /\ window = 7
    /\ output = <<>>

GeneratePages ==
    /\ output = <<>>
    /\ output' = generate_pages(current_page, num_of_pages, search, status,
                                window)
    /\ UNCHANGED <<current_page, num_of_pages, search, status, window>>
    /\ UNCHANGED <<hideVars, migVars, filterVars, convertVars>>

\* what the rendered widget shows
Rendered == output # <<>>
PageEntries == SelectSeq(output, LAMBDA e : e.node = "page")
DisplayedPages == [i \in 1..Len(PageEntries) |-> PageEntries[i].page_num - 1]
Control(name) == CHOOSE e \in {output[i] : i \in 1..Len(output)} : e.node = name

(***************************************************************************)
(* should_hide_value_for_key.  A str is a sequence of one-character        *)
(* strings.                                                                *)
(***************************************************************************)
MaxKeyPieces == 3

DEFAULT_SENSITIVE_VARIABLE_FIELDS == {
    <<"p", "a", "s", "s", "w", "o", "r", "d">>,
    <<"s", "e", "c", "r", "e", "t">>,
    <<"p", "a", "s", "s", "w", "d">>,
    <<"a", "u", "t", "h", "o", "r", "i", "z", "a", "t", "i", "o", "n">>,
    <<"a", "p", "i", "_", "k", "e", "y">>,
    <<"a", "p", "i", "k", "e", "y">>,
    <<"a", "c", "c", "e", "s", "s", "_", "t", "o", "k", "e", "n">>}

UpperCase ==
    <<"A", "B", "C", "D", "E", "F", "G", "H", "I", "J", "K", "L", "M",
      "N", "O", "P", "Q", "R", "S", "T", "U", "V", "W", "X", "Y", "Z">>
LowerCase ==
    <<"a", "b", "c", "d", "e", "f", "g", "h", "i", "j", "k", "l", "m",
      "n", "o", "p", "q", "r", "s", "t", "u", "v", "w", "x", "y", "z">>
Whitespace == {" ", "\t", "\n", "\r", "\f"}

\* str.lower()
lower(s) ==
    [i \in 1..Len(s) |->
        IF \E k \in 1..Len(UpperCase) : UpperCase[k] = s[i]
          THEN LowerCase[CHOOSE k \in 1..Len(UpperCase) : UpperCase[k] = s[i]]
          ELSE s[i]]

\* str.strip()
strip(s) ==
    LET keep == {i \in 1..Len(s) : s[i] \notin Whitespace}
    IN  IF keep = {} THEN <<>>
        ELSE SubSeq(s, CHOOSE i \in keep : \A j \in keep : i <= j,
                       CHOOSE i \in keep : \A j \in keep : i >= j)

\* str.split(',')
RECURSIVE split(_)
split(s) ==
    LET commas == {i \in 1..Len(s) : s[i] = ","}
    IN  IF commas = {} THEN <<s>>
        ELSE LET i == CHOOSE c \in commas : \A d \in commas : c <= d
             IN  <<SubSeq(s, 1, i - 1)>> \o split(SubSeq(s, i + 1, Len(s)))

\* sub in s
Contains(sub, s) ==
    \E i \in 0..(Len(s) - Len(sub)) : SubSeq(s, i + 1, i + Len(sub)) = sub

\* get_sensitive_variables_fields() for a value of
\* [admin] sensitive_variable_fields
get_sensitive_variables_fields(conf) ==
    IF conf # <<>>
      THEN DEFAULT_SENSITIVE_VARIABLE_FIELDS
             \cup {strip(split(conf)[i]) : i \in 1..Len(split(conf))}
      ELSE DEFAULT_SENSITIVE_VARIABLE_FIELDS

\* variant: the key is compared without lower-casing it
should_hide_value_for_key_NoLower(key, config_set, conf) ==
    IF key # <<>>
      THEN LET field_comp ==
                 \E s \in get_sensitive_variables_fields(conf) :
                     Contains(s, strip(key))
           IN  config_set /\ field_comp
      ELSE FALSE

\* should_hide_value_for_key(key_name) for the two configuration values
should_hide_value_for_key(key, config_set, conf) ==
    IF key # <<>>
      THEN LET field_comp ==
                 \E s \in get_sensitive_variables_fields(conf) :
                     Contains(s, lower(strip(key)))
           IN  config_set /\ field_comp
      ELSE FALSE

\* the pieces variable keys are built from
KeyPieces == {
    <<" ">>,
    <<"u", "s", "e", "r">>,
    <<"n", "a", "m", "e">>,
    <<"_">>,
    <<"p", "a", "s", "s", "w", "o", "r", "d">>,
    <<"P", "a", "s", "s", "w", "d">>,
    <<"S", "E", "C", "R", "E", "T">>,
    <<"A", "u", "t", "h", "o", "r", "i", "z", "a", "t", "i", "o", "n">>,
    <<"a", "p", "i">>,
    <<"K", "e", "y">>,
    <<"a", "c", "c", "e", "s", "s">>,
    <<"t", "o", "k", "e", "n">>}

RECURSIVE Flatten(_)
Flatten(ps) == IF ps = <<>> THEN <<>> ELSE Head(ps) \o Flatten(Tail(ps))

KeyNames ==
    {Flatten(ps) : ps \in UNION {[1..k -> KeyPieces] : k \in 0..MaxKeyPieces}}

\* values of [admin] sensitive_variable_fields; the default is empty
ConfValues == {
    <<>>,
    <<"t", "o", "k", "e", "n">>,
    <<"t", "o", "k", "e", "n", ",">>,
    <<",", "n", "a", "m", "e">>,
    <<"u", "s", "e", "r", ",", " ", "k", "e", "y">>,
    <<"n", "a", "m", "e", ",", ",", "t", "o", "k", "e", "n">>}

HideInit ==
    /\ key_name \in KeyNames
    /\ hide_sensitive_variable_fields \in BOOLEAN
    /\ sensitive_variable_fields \in ConfValues
    /\ hide_result = [returned |-> FALSE]

HideIdle ==
    /\ key_name = <<>>
    /\ hide_sensitive_variable_fields = TRUE
    /\ sensitive_variable_fields = <<>>
    /\ hide_result = [returned |-> FALSE]

ShouldHideValueForKey ==
    /\ ~hide_result.returned
    /\ hide_result' =
         [returned |-> TRUE,
          value |-> should_hide_value_for_key(key_name,
                        hide_sensitive_variable_fields,
                        sensitive_variable_fields)]
    /\ UNCHANGED <<key_name, hide_sensitive_variable_fields,
                   sensitive_variable_fields>>
    /\ UNCHANGED <<pageVars, migVars, filterVars, convertVars>>

(***************************************************************************)
(* Migration 19d8a998c007: add the task_tag table.  The schema is the set  *)
(* of objects of the database; a statement that the database rejects       *)
(* raises and ends the migration function.                                 *)
(***************************************************************************)
MaxRuns == 3

tag_id_sequence ==
    [kind |-> "sequence", name |-> "tag_id_sequence", columns |-> <<>>,
     primary_key |-> <<>>]

task_tag ==
    [kind |-> "table", name |-> "task_tag",
     columns |-> <<[name |-> "tag_id", type |-> "Integer", nullable |-> FALSE,
                    server_default |-> "tag_id_sequence"],
                   [name |-> "name", type |-> "String(100)",
                    nullable |-> FALSE, server_default |-> None]>>,
     primary_key |-> <<"tag_id", "name">>]

\* tables of the schema at down_revision 952da73b5eff
OtherTable(n) ==
    [kind |-> "table", name |-> n, columns |-> <<>>, primary_key |-> <<>>]
OtherObjects ==
    {OtherTable(n) : n \in {"dag", "task_instance", "variable", "slot_pool"}}

HasObject(sch, kind, name) == \E o \in sch : o.kind = kind /\ o.name = name

\* a table column takes its default from the sequence
DependsOnSequence(sch, seq) ==
    \E o \in sch : \E i \in 1..Len(o.columns) :
        o.columns[i].server_default = seq

Stmt(stmt, object, ok) == [stmt |-> stmt, object |-> object, ok |-> ok]

MigInit ==
    /\ schema \in SUBSET OtherObjects
    /\ schema_before = schema
    /\ mig_pc = "idle"
    /\ ddl_log = <<>>
    /\ runs = 0

MigIdle ==
    /\ schema = OtherObjects
    /\ schema_before = schema
    /\ mig_pc = "idle"
    /\ ddl_log = <<>>
    /\ runs = 0

\* variant: upgrade() creates the table before the sequence
UpgradeCreateSequence_TableFirst ==
    /\ mig_pc = "idle"
    /\ runs < MaxRuns
    /\ runs' = runs + 1
    /\ schema_before' = schema
    /\ IF HasObject(schema, "table", "task_tag")
         THEN /\ ddl_log' = Append(ddl_log,
                                Stmt("CreateTable", "task_tag", FALSE))
              /\ UNCHANGED <<schema, mig_pc>>
         ELSE /\ schema' = schema \cup {task_tag}
              /\ ddl_log' = Append(ddl_log,
                                Stmt("CreateTable", "task_tag", TRUE))
              /\ mig_pc' = "upgrade_create_table"
    /\ UNCHANGED <<pageVars, hideVars, filterVars, convertVars>>

\* upgrade(), first statement: op.execute(CreateSequence(tag_id_sequence))
UpgradeCreateSequence ==
    /\ mig_pc = "idle"
    /\ runs < MaxRuns
    /\ runs' = runs + 1
    /\ schema_before' = schema
    /\ IF HasObject(schema, "sequence", "tag_id_sequence")
         THEN /\ ddl_log' = Append(ddl_log,
                                Stmt("CreateSequence", "tag_id_sequence", FALSE))
              /\ UNCHANGED <<schema, mig_pc>>
         ELSE /\ schema' = schema \cup {tag_id_sequence}
              /\ ddl_log' = Append(ddl_log,
                                Stmt("CreateSequence", "tag_id_sequence", TRUE))
              /\ mig_pc' = "upgrade_create_table"
    /\ UNCHANGED <<pageVars, hideVars, filterVars, convertVars>>

\* upgrade(), second statement: op.create_table('task_tag', ...)
UpgradeCreateTable ==
    /\ mig_pc = "upgrade_create_table"
    /\ mig_pc' = "idle"
    /\ IF HasObject(schema, "table", "task_tag")
         THEN /\ ddl_log' = Append(ddl_log,
                                Stmt("CreateTable", "task_tag", FALSE))
              /\ UNCHANGED schema
         ELSE /\ schema' = schema \cup {task_tag}
              /\ ddl_log' = Append(ddl_log,
                                Stmt("CreateTable", "task_tag", TRUE))
    /\ UNCHANGED <<schema_before, runs>>
    /\ UNCHANGED <<pageVars, hideVars, filterVars, convertVars>>

\* downgrade(), first statement: op.drop_table('task_tag')
DowngradeDropTable ==
    /\ mig_pc = "idle"
    /\ runs < MaxRuns
    /\ runs' = runs + 1
    /\ IF HasObject(schema, "table", "task_tag")
         THEN /\ schema' = {o \in schema :
                               ~(o.kind = "table" /\ o.name = "task_tag")}
              /\ ddl_log' = Append(ddl_log,
                                Stmt("DropTable", "task_tag", TRUE))
              /\ mig_pc' = "downgrade_drop_sequence"
         ELSE /\ ddl_log' = Append(ddl_log,
                                Stmt("DropTable", "task_tag", FALSE))
              /\ UNCHANGED <<schema, mig_pc>>
    /\ UNCHANGED schema_before
    /\ UNCHANGED <<pageVars, hideVars, filterVars, convertVars>>

\* variant: downgrade() ends without dropping the sequence
DowngradeDropSequence_Keep ==
    /\ mig_pc = "downgrade_drop_sequence"
    /\ mig_pc' = "idle"
    /\ ddl_log' = Append(ddl_log,
                      Stmt("DropSequence", "tag_id_sequence", TRUE))
    /\ UNCHANGED <<schema, schema_before, runs>>
    /\ UNCHANGED <<pageVars, hideVars, filterVars, convertVars>>

\* downgrade(), second statement: op.execute(DropSequence(tag_id_sequence))
DowngradeDropSequence ==
    /\ mig_pc = "downgrade_drop_sequence"
    /\ mig_pc' = "idle"
    /\ IF /\ HasObject(schema, "sequence", "tag_id_sequence")
          /\ ~DependsOnSequence(schema, "tag_id_sequence")
         THEN /\ schema' = {o \in schema :
                     ~(o.kind = "sequence" /\ o.name = "tag_id_sequence")}
              /\ ddl_log' = Append(ddl_log,
                                Stmt("DropSequence", "tag_id_sequence", TRUE))
         ELSE /\ ddl_log' = Append(ddl_log,
                                Stmt("DropSequence", "tag_id_sequence", FALSE))
              /\ UNCHANGED schema
    /\ UNCHANGED <<schema_before, runs>>
    /\ UNCHANGED <<pageVars, hideVars, filterVars, convertVars>>

(***************************************************************************)
(* UTC-aware filters: UtcAwareFilterMixin.apply in front of the wrapped    *)
(* comparison filter.  A query is the sequence of its criteria.            *)
(***************************************************************************)
FilterClasses ==
    {"UtcAwareFilterEqual", "UtcAwareFilterGreater", "UtcAwareFilterSmaller",
     "UtcAwareFilterNotEqual"}

\* the class after UtcAwareFilterMixin in the method resolution order
WrappedFilter(cls) ==
    CASE cls = "UtcAwareFilterEqual" -> "FilterEqual"
      [] cls = "UtcAwareFilterGreater" -> "FilterGreater"
      [] cls = "UtcAwareFilterSmaller" -> "FilterSmaller"
      [] cls = "UtcAwareFilterNotEqual" -> "FilterNotEqual"

\* the comparison the wrapped filter adds to the query
FilterOp(wrapped) ==
    CASE wrapped = "FilterEqual" -> "=="
      [] wrapped = "FilterGreater" -> ">"
      [] wrapped = "FilterSmaller" -> "<"
      [] wrapped = "FilterNotEqual" -> "!="

RawValues ==
    {"2020-05-29 14:20:37", "2020-05-29T14:20:37", "2020-05-29", "not a date"}
Parseable(raw) == raw # "not a date"

\* timezone.parse(value, timezone=tz): the datetime read from the string,
\* in the given timezone
timezone_parse(raw, tz) == [dttm |-> raw, tzinfo |-> tz]

Queries ==
    {<<>>, <<<<"state", "==", "success">>>>,
     <<<<"state", "==", "failed">>, <<"dag_id", "==", "example">>>>}

FilterInit ==
    /\ filter_class \in FilterClasses
    /\ query \in Queries
    /\ raw_value \in RawValues
    /\ value = [raw |-> raw_value]
    /\ flt_pc = "called"
    /\ delegated = <<>>
    /\ result = [returned |-> FALSE]

FilterIdle ==
    /\ filter_class = "UtcAwareFilterEqual"
    /\ query = <<>>
    /\ raw_value = "2020-05-29"
    /\ value = [raw |-> raw_value]
    /\ flt_pc = "called"
    /\ delegated = <<>>
    /\ result = [returned |-> FALSE]

\* variant: the value is handed on as it came in
FilterParse_Raw ==
    /\ flt_pc = "called"
    /\ flt_pc' = "parsed"
    /\ UNCHANGED <<filter_class, query, raw_value, value, delegated, result>>
    /\ UNCHANGED <<pageVars, hideVars, migVars, convertVars>>

\* value = timezone.parse(value, timezone=timezone.utc)
FilterParse ==
    /\ flt_pc = "called"
    /\ IF Parseable(raw_value)
         THEN /\ value' = timezone_parse(raw_value, "UTC")
              /\ flt_pc' = "parsed"
         ELSE /\ flt_pc' = "raised"
              /\ UNCHANGED value
    /\ UNCHANGED <<filter_class, query, raw_value, delegated, result>>
    /\ UNCHANGED <<pageVars, hideVars, migVars, convertVars>>

\* return super().apply(query, value)
FilterDelegate ==
    /\ flt_pc = "parsed"
    /\ LET wrapped == WrappedFilter(filter_class)
           returned == Append(query, <<"column", FilterOp(wrapped), value>>)
       IN  /\ delegated' = Append(delegated,
                   [filter |-> wrapped, query |-> query, value |-> value,
                    returned |-> returned])
           /\ result' = [returned |-> TRUE, value |-> returned]
    /\ flt_pc' = "returned"
    /\ UNCHANGED <<filter_class, query, raw_value, value>>
    /\ UNCHANGED <<pageVars, hideVars, migVars, convertVars>>

(***************************************************************************)
(* TaskTagModelConverter._convert_col over CustomSQLAInterface.is_tasktag  *)
(***************************************************************************)
RelatedModels == {"TaskTag", "DagModel", "TaskInstance"}
Cardinalities == {"ONETOONE", "MANYTOONE", "ONETOMANY", "MANYTOMANY"}

\* the columns of a datamodel: absent from list_properties, a plain
\* property, or a relationship to a model with a cardinality
Columns ==
    {[col_name |-> n, in_list_properties |-> FALSE, is_relation |-> FALSE,
      related_model |-> None, cardinality |-> None] :
        n \in {"task_tags", "dag_id", "_state"}}
    \cup
    {[col_name |-> n, in_list_properties |-> TRUE, is_relation |-> FALSE,
      related_model |-> None, cardinality |-> None] :
        n \in {"task_tags", "dag_id", "_state"}}
    \cup
    {[col_name |-> n, in_list_properties |-> TRUE, is_relation |-> TRUE,
      related_model |-> m, cardinality |-> c] :
        n \in {"task_tags", "dag_id", "_state"}, m \in RelatedModels,
        c \in Cardinalities}

ConvertArgs ==
    [label : {"Tags", "Dag"}, description : {"", "help"},
     lst_validators : {<<>>, <<"DataRequired">>},
     filter_rel_fields : {None, "name"},
     form_props : {<<>>, <<<<"task_tags", "field">>>>}]

\* CustomSQLAInterface.is_tasktag(col_name)
is_tasktag(col) ==
    IF col.in_list_properties /\ col.is_relation
      THEN col.related_model = "TaskTag"
      ELSE FALSE

ConvertInit ==
    /\ column \in Columns
    /\ convert_args \in ConvertArgs
    /\ convert_calls = <<>>
    /\ convert_result = [returned |-> FALSE]

ConvertIdle ==
    /\ column = [col_name |-> "dag_id", in_list_properties |-> TRUE,
                 is_relation |-> FALSE, related_model |-> None,
                 cardinality |-> None]
    /\ convert_args = [label |-> "Dag", description |-> "",
                       lst_validators |-> <<>>, filter_rel_fields |-> None,
                       form_props |-> <<>>]
    /\ convert_calls = <<>>
    /\ convert_result = [returned |-> FALSE]

\* variant: every relation goes to the default conversion, as in
\* GeneralModelConverter
ConvertCol_RelationFirst ==
    /\ ~convert_result.returned
    /\ LET call ==
             IF is_tasktag(column) /\ ~column.is_relation
               THEN [method |-> "_convert_simple",
                     args |-> <<<<"col_name", column.col_name>>,
                                <<"label", convert_args.label>>,
                                <<"description", convert_args.description>>,
                                <<"lst_validators",
                                  convert_args.lst_validators>>,
                                <<"form_props", convert_args.form_props>>>>]
               ELSE [method |-> "GeneralModelConverter._convert_col",
                     args |-> <<<<"col_name", column.col_name>>,
                                <<"label", convert_args.label>>,
                                <<"description", convert_args.description>>,
                                <<"lst_validators",
                                  convert_args.lst_validators>>,
                                <<"filter_rel_fields",
                                  convert_args.filter_rel_fields>>,
                                <<"form_props", convert_args.form_props>>>>]
       IN  /\ convert_calls' = Append(convert_calls, call)
           /\ convert_result' = [returned |-> TRUE, value |-> call]
    /\ UNCHANGED <<column, convert_args>>
    /\ UNCHANGED <<pageVars, hideVars, migVars, filterVars>>

\* TaskTagModelConverter._convert_col(col_name, label, description,
\*     lst_validators, filter_rel_fields, form_props)
ConvertCol ==
    /\ ~convert_result.returned
    /\ LET call ==
             IF is_tasktag(column)
               THEN [method |-> "_convert_simple",
                     args |-> <<<<"col_name", column.col_name>>,
                                <<"label", convert_args.label>>,
                                <<"description", convert_args.description>>,
                                <<"lst_validators",
                                  convert_args.lst_validators>>,
                                <<"form_props", convert_args.form_props>>>>]
               ELSE [method |-> "GeneralModelConverter._convert_col",
                     args |-> <<<<"col_name", column.col_name>>,
                                <<"label", convert_args.label>>,
                                <<"description", convert_args.description>>,
                                <<"lst_validators",
                                  convert_args.lst_validators>>,
                                <<"filter_rel_fields",
                                  convert_args.filter_rel_fields>>,
                                <<"form_props", convert_args.form_props>>>>]
       IN  /\ convert_calls' = Append(convert_calls, call)
           /\ convert_result' = [returned |-> TRUE, value |-> call]
    /\ UNCHANGED <<column, convert_args>>
    /\ UNCHANGED <<pageVars, hideVars, migVars, filterVars>>

(***************************************************************************)
(* Specifications, one per component                                       *)
(***************************************************************************)
InitPages == PageInit /\ HideIdle /\ MigIdle /\ FilterIdle /\ ConvertIdle
NextPages == GeneratePages
SpecPages == InitPages /\ [][NextPages]_vars

InitHide == PageIdle /\ HideInit /\ MigIdle /\ FilterIdle /\ ConvertIdle
NextHide == ShouldHideValueForKey
SpecHide == InitHide /\ [][NextHide]_vars

InitMigration == PageIdle /\ HideIdle /\ MigInit /\ FilterIdle /\ ConvertIdle
NextMigration ==
    \/ UpgradeCreateSequence
    \/ UpgradeCreateTable
    \/ DowngradeDropTable
    \/ DowngradeDropSequence
SpecMigration == InitMigration /\ [][NextMigration]_vars

InitFilter == PageIdle /\ HideIdle /\ MigIdle /\ FilterInit /\ ConvertIdle
NextFilter == FilterParse \/ FilterDelegate
SpecFilter == InitFilter /\ [][NextFilter]_vars

InitConvert == PageIdle /\ HideIdle /\ MigIdle /\ FilterIdle /\ ConvertInit
NextConvert == ConvertCol
SpecConvert == InitConvert /\ [][NextConvert]_vars

Init == InitPages
Next == NextPages
Spec == SpecPages

(***************************************************************************)
(* Properties                                                              *)
(***************************************************************************)
\* the sequence a, a+1, ..., b-1
Upto(a, b) == [i \in 1..(IF b > a THEN b - a ELSE 0) |-> a + i - 1]

\* C1 (as stated): in the first branch (current_page <= floor(window/2) or
\* num_of_pages < window) the pages displayed are exactly 0 .. window-1.
C1_FirstBranchShowsWindow ==
    (/\ Rendered
     /\ current_page >= 0
     /\ window >= 1
     /\ (current_page <= window \div 2 \/ num_of_pages < window))
    => DisplayedPages = Upto(0, window)

\* C1 (amended): in the first branch the pages displayed are exactly
\* 0 .. min(num_of_pages, window)-1, in ascending order.
C1_FirstBranchShowsCappedWindow ==
    (/\ Rendered
     /\ current_page >= 0
     /\ window >= 1
     /\ (current_page <= window \div 2 \/ num_of_pages < window))
    => DisplayedPages =
         Upto(0, IF num_of_pages < window THEN num_of_pages ELSE window)

C1_Witness ==
    /\ Rendered
    /\ current_page = 1
    /\ num_of_pages = 3
    /\ window = 7
    /\ DisplayedPages = <<0, 1, 2>>

\* C2: in the centred branch (floor(window/2) < current_page <
\* (num_of_pages-1) - floor(window/2)) the pages displayed are exactly
\* current_page - floor(window/2) .. current_page + floor(window/2), with the
\* current page as the middle entry.
C2_CentredBranch ==
    (/\ Rendered
     /\ window >= 1
     /\ window \div 2 < current_page
     /\ current_page < (num_of_pages - 1) - window \div 2)
    => /\ DisplayedPages =
            Upto(current_page - window \div 2,
                 current_page + window \div 2 + 1)
       /\ Len(DisplayedPages) = 2 * (window \div 2) + 1
       /\ DisplayedPages[window \div 2 + 1] = current_page

C2_Witness ==
    /\ Rendered
    /\ num_of_pages = 20
    /\ window = 7
    /\ current_page = 10
    /\ DisplayedPages = <<7, 8, 9, 10, 11, 12, 13>>

\* C3: in the end branch (num_of_pages >= window, current_page >
\* floor(window/2) and current_page >= (num_of_pages-1) - floor(window/2))
\* the pages displayed are exactly the last window pages,
\* num_of_pages - window .. num_of_pages - 1.
C3_EndBranch ==
    (/\ Rendered
     /\ window >= 1
     /\ num_of_pages >= window
     /\ current_page > window \div 2
     /\ current_page >= (num_of_pages - 1) - window \div 2)
    => DisplayedPages = Upto(num_of_pages - window, num_of_pages)

C3_Witness ==
    /\ Rendered
    /\ num_of_pages = 20
    /\ window = 7
    /\ current_page = 19
    /\ DisplayedPages = <<13, 14, 15, 16, 17, 18, 19>>

\* C4: 'first' and 'previous' are both disabled iff current_page <= 0,
\* 'next' and 'last' are both disabled iff current_page >= num_of_pages - 1,
\* and the two controls of a pair are never in different states.
C4_ControlState ==
    Rendered =>
      /\ (Control("first").disabled = "disabled") <=> (current_page <= 0)
      /\ (Control("previous").disabled = "disabled") <=> (current_page <= 0)
      /\ (Control("next").disabled = "disabled")
            <=> (current_page >= num_of_pages - 1)
      /\ (Control("last").disabled = "disabled")
            <=> (current_page >= num_of_pages - 1)
      /\ Control("first").disabled = Control("previous").disabled
      /\ Control("next").disabled = Control("last").disabled
      /\ \A name \in {"first", "previous", "next", "last"} :
            Control(name).disabled \in {"disabled", ""}

C4_Witness ==
    /\ Rendered
    /\ current_page = 4
    /\ num_of_pages = 5
    /\ Control("first").disabled = ""
    /\ Control("previous").disabled = ""
    /\ Control("next").disabled = "disabled"
    /\ Control("last").disabled = "disabled"

\* the last k statements of the migration log
LastStmts(k) ==
    IF Len(ddl_log) >= k
      THEN [i \in 1..k |-> ddl_log[Len(ddl_log) - k + i].stmt]
      ELSE <<>>

\* upgrade() ran to its end and downgrade() ran to its end right after it
RoundTripDone ==
    /\ mig_pc = "idle"
    /\ LastStmts(4) =
         <<"CreateSequence", "CreateTable", "DropTable", "DropSequence">>
    /\ ddl_log[Len(ddl_log) - 3].ok
    /\ ddl_log[Len(ddl_log) - 2].ok

\* C5: from a schema with neither task_tag nor tag_id_sequence, upgrade()
\* followed by downgrade() yields the starting schema: neither object
\* remains and every other object is unchanged.
C5_RoundTrip ==
    RoundTripDone =>
      /\ schema = schema_before
      /\ ~HasObject(schema, "table", "task_tag")
      /\ ~HasObject(schema, "sequence", "tag_id_sequence")
      /\ ddl_log[Len(ddl_log) - 1].ok
      /\ ddl_log[Len(ddl_log)].ok

C5_Witness ==
    /\ RoundTripDone
    /\ schema = schema_before
    /\ Cardinality(schema) = 2
    /\ Len(ddl_log) = 4

\* C6: upgrade() creates tag_id_sequence before task_tag and downgrade()
\* drops task_tag before tag_id_sequence, so in every state during or
\* between their steps, if task_tag exists then tag_id_sequence exists.
C6_TableImpliesSequence ==
    /\ HasObject(schema, "table", "task_tag")
          => HasObject(schema, "sequence", "tag_id_sequence")
    /\ \A i \in 1..Len(ddl_log) :
          /\ (ddl_log[i].stmt = "CreateTable")
                => (i > 1 /\ ddl_log[i - 1]
                              = Stmt("CreateSequence", "tag_id_sequence", TRUE))
          /\ (ddl_log[i].stmt = "DropSequence")
                => (i > 1 /\ ddl_log[i - 1]
                              = Stmt("DropTable", "task_tag", TRUE))

C6_Witness ==
    /\ mig_pc = "downgrade_drop_sequence"
    /\ HasObject(schema, "sequence", "tag_id_sequence")
    /\ ~HasObject(schema, "table", "task_tag")
    /\ LastStmts(3) = <<"CreateSequence", "CreateTable", "DropTable">>

\* C7: a column for which is_tasktag is true is converted by
\* _convert_simple and never by the default _convert_col, whatever its
\* cardinality; any other column goes to the default _convert_col with the
\* six arguments unchanged.
C7_TagColumnIsSimple ==
    convert_result.returned =>
      /\ Len(convert_calls) = 1
      /\ convert_result.value = convert_calls[1]
      /\ is_tasktag(column) =>
            /\ convert_calls[1].method = "_convert_simple"
            /\ convert_calls[1].args =
                 <<<<"col_name", column.col_name>>,
                   <<"label", convert_args.label>>,
                   <<"description", convert_args.description>>,
                   <<"lst_validators", convert_args.lst_validators>>,
                   <<"form_props", convert_args.form_props>>>>
      /\ ~is_tasktag(column) =>
            /\ convert_calls[1].method = "GeneralModelConverter._convert_col"
            /\ convert_calls[1].args =
                 <<<<"col_name", column.col_name>>,
                   <<"label", convert_args.label>>,
                   <<"description", convert_args.description>>,
                   <<"lst_validators", convert_args.lst_validators>>,
                   <<"filter_rel_fields", convert_args.filter_rel_fields>>,
                   <<"form_props", convert_args.form_props>>>>

C7_Witness ==
    /\ convert_result.returned
    /\ column.related_model = "TaskTag"
    /\ column.cardinality = "MANYTOMANY"
    /\ convert_calls[1].method = "_convert_simple"

\* C8: apply(query, value) of each UTC-aware filter first interprets the
\* value as a UTC datetime and then delegates exactly once to the wrapped
\* comparison filter, with the unchanged query and the UTC value, never
\* the raw value; apply returns what the wrapped filter returns.
C8_ParseThenDelegate ==
    /\ flt_pc \in {"called", "raised"} =>
          (delegated = <<>> /\ ~result.returned)
    /\ flt_pc = "parsed" =>
          (delegated = <<>> /\ value = [dttm |-> raw_value, tzinfo |-> "UTC"])
    /\ flt_pc = "returned" =>
          /\ Len(delegated) = 1
          /\ <<filter_class, delegated[1].filter>> \in
                {<<"UtcAwareFilterEqual", "FilterEqual">>,
                 <<"UtcAwareFilterGreater", "FilterGreater">>,
                 <<"UtcAwareFilterSmaller", "FilterSmaller">>,
                 <<"UtcAwareFilterNotEqual", "FilterNotEqual">>}
          /\ delegated[1].query = query
          /\ delegated[1].value = [dttm |-> raw_value, tzinfo |-> "UTC"]
          /\ delegated[1].value # [raw |-> raw_value]
          /\ result.returned
          /\ result.value = delegated[1].returned

C8_Witness ==
    /\ flt_pc = "returned"
    /\ filter_class = "UtcAwareFilterGreater"
    /\ raw_value = "2020-05-29 14:20:37"
    /\ delegated[1].filter = "FilterGreater"
    /\ delegated[1].value.tzinfo = "UTC"

user_password ==
    <<"u", "s", "e", "r", "_", "p", "a", "s", "s", "w", "o", "r", "d">>
username == <<"u", "s", "e", "r", "n", "a", "m", "e">>

\* C9: with no extra configured names, should_hide_value_for_key returns
\* true iff the key is non-empty, the hide toggle is on and the key, trimmed
\* and lower-cased, contains one of the seven default names; user_password
\* is hidden, username is not.
C9_DefaultConfig ==
    (hide_result.returned /\ sensitive_variable_fields = <<>>) =>
      /\ hide_result.value <=>
            /\ key_name # <<>>
            /\ hide_sensitive_variable_fields
            /\ \E s \in DEFAULT_SENSITIVE_VARIABLE_FIELDS :
                  Contains(s, lower(strip(key_name)))
      /\ (key_name = user_password /\ hide_sensitive_variable_fields)
            => hide_result.value
      /\ key_name = username => ~hide_result.value
      /\ (key_name = <<>> \/ ~hide_sensitive_variable_fields)
            => ~hide_result.value

C9_Witness ==
    /\ hide_result.returned
    /\ sensitive_variable_fields = <<>>
    /\ hide_sensitive_variable_fields
    /\ key_name = user_password
    /\ hide_result.value

\* C10: for window >= 1 and 0 <= current_page < max(num_of_pages, 1) the
\* number of page entries displayed is min(window, num_of_pages), for odd
\* and even windows alike.
C10_WindowSize ==
    (/\ Rendered
     /\ window >= 1
     /\ 0 <= current_page
     /\ current_page < (IF num_of_pages > 1 THEN num_of_pages ELSE 1))
    => Len(DisplayedPages) =
         (IF window < num_of_pages THEN window ELSE num_of_pages)

\* the positions of the page entries that show page p
EntriesOf(p) == {i \in 1..Len(PageEntries) : PageEntries[i].page_num - 1 = p}

\* C11: for window >= 1, num_of_pages >= 1 and 0 <= current_page <=
\* num_of_pages - 1 the displayed pages contain current_page exactly once,
\* that entry is the only one marked active and the only one whose link is
\* the void link, and every displayed page lies in 0 .. num_of_pages - 1.
C11_CurrentPageVisible ==
    (/\ Rendered
     /\ window >= 1
     /\ num_of_pages >= 1
     /\ 0 <= current_page
     /\ current_page <= num_of_pages - 1)
    => /\ Cardinality(EntriesOf(current_page)) = 1
       /\ \A i \in 1..Len(PageEntries) :
             /\ (PageEntries[i].is_active = "active")
                   <=> (i \in EntriesOf(current_page))
             /\ (PageEntries[i].href_link = [href |-> "javascript:void(0)"])
                   <=> (i \in EntriesOf(current_page))
             /\ PageEntries[i].is_active \in {"active", ""}
             /\ 0 <= PageEntries[i].page_num - 1
             /\ PageEntries[i].page_num - 1 <= num_of_pages - 1

C11_Witness ==
    /\ Rendered
    /\ num_of_pages = 20
    /\ window = 4
    /\ current_page = 17
    /\ DisplayedPages = <<16, 17, 18, 19>>
    /\ PageEntries[2].is_active = "active"
    /\ PageEntries[2].href_link = [href |-> "javascript:void(0)"]
    /\ PageEntries[1].is_active = ""

\* the names a setting lists: its comma-separated fields, trimmed, without
\* the empty ones
ConfiguredNames(conf) ==
    {strip(split(conf)[i]) : i \in 1..Len(split(conf))} \ {<<>>}

\* C12: for every value of the comma-separated setting, also with a
\* trailing, leading or doubled comma, a key is hidden only if the key,
\* trimmed and lower-cased, contains one of the seven default names or one
\* of the non-empty trimmed names of the setting.
C12_HiddenOnlyIfNamed ==
    (hide_result.returned /\ hide_result.value) =>
      \E s \in DEFAULT_SENSITIVE_VARIABLE_FIELDS
                 \cup ConfiguredNames(sensitive_variable_fields) :
          /\ s # <<>>
          /\ Contains(s, lower(strip(key_name)))

====
